---------------------------- MODULE Spec2Model ----------------------------
(***************************************************************************)
(* A model of the kanata streaming parser (src/src/parser, src/src/command). *)
(*                                                                         *)
(* The parser is a cursor `pos` over an immutable byte buffer `input`; the *)
(* only operation is the iterator's next(), which dispatches on the leading*)
(* byte to one grammar rule.  Bytes are their ASCII codes.  The buffer is  *)
(* held run-length encoded (a sequence of [b, n]: byte b repeated n times),*)
(* which is a lossless representation of the byte sequence and lets the    *)
(* model hold the 20-digit runs and 65536-byte texts at which the 64-bit   *)
(* accumulator and the 16-bit StrRef length reach their widths.            *)
(* 64-bit and 32-bit unsigned values are held as little-endian 16-bit      *)
(* limbs, so that their arithmetic keeps its width.                        *)
(***************************************************************************)
EXTENDS Integers, Sequences, FiniteSets, TLC

\* input:           the borrowed buffer (Parser.input), run-length encoded
\* overflow_checks: whether the build checks integer overflow (a debug build
\*                  does and panics on it; a release build wraps)
\* pos:             the cursor (Parser.pos)
\* pulled:          the caller's record of its pulls so far, oldest first:
\*                  the cursor before and after each next() and what it returned
VARIABLES input, overflow_checks, pos, pulled

vars == <<input, overflow_checks, pos, pulled>>

(***************************************************************************)
(* Byte literals of the source.                                            *)
(***************************************************************************)
TAB == 9
LF == 10
CR == 13
SP == 32
PLUS == 43
MINUS == 45
EQ == 61
CH_0 == 48
CH_1 == 49
CH_2 == 50
CH_9 == 57
CH_K == 75
CH_C == 67
CH_I == 73
CH_L == 76
CH_S == 83
CH_E == 69
CH_R == 82
CH_W == 87

\* b"Kanata\t"
kanata == <<75, 97, 110, 97, 116, 97, 9>>

(***************************************************************************)
(* The buffer.                                                             *)
(***************************************************************************)
RECURSIVE RunsLen(_)
RunsLen(runs) ==
    IF runs = <<>> THEN 0 ELSE Head(runs).n + RunsLen(Tail(runs))

\* input.len()
InputLen == RunsLen(input)

RECURSIVE AtRun(_, _)
AtRun(k, i) ==
    IF i < input[k].n THEN input[k].b ELSE AtRun(k + 1, i - input[k].n)

\* input[i], 0 <= i < input.len()
At(i) == AtRun(1, i)

(***************************************************************************)
(* Parser primitives (parser/primitive.rs).  A primitive that moves the    *)
(* cursor is an operator from the position before to a result             *)
(*   [st |-> "Ok",  pos |-> position after, v |-> value]                   *)
(*   [st |-> "Err", pos |-> position after, e |-> ParseError]              *)
(*   [st |-> "Panic", pos |-> position]                                    *)
(***************************************************************************)
Ok(p, v) == [st |-> "Ok", pos |-> p, v |-> v]
Err(p, e) == [st |-> "Err", pos |-> p, e |-> e]
Panic(p) == [st |-> "Panic", pos |-> p]

\* self.pos += n
advance(p, n) == p + n

\* &self.input[self.get_offset()..] panics when the offset is past the end
rest_panics(p) == p > InputLen

\* rest().len()
rest_len(p) == InputLen - p

\* ParseError { offset: self.get_offset(), kind }
error(p, kind) == [offset |-> p, kind |-> kind]

bump(p) == advance(p, 1)

\* current that takes the last byte of the buffer for its end
current_off_by_one(p) == IF p + 1 < InputLen THEN <<At(p)>> ELSE <<>>

\* Option<u8> as a sequence of at most one byte: <<>> is None, <<b>> is Some(b)
current(p) == IF p < InputLen THEN <<At(p)>> ELSE <<>>

is_ascii_digit(b) == b >= CH_0 /\ b <= CH_9


(***************************************************************************)
(* Fixed-width integers.  A u64 is <<l0, l1, l2, l3>>, a u32 is <<l0, l1>>,*)
(* 16-bit limbs, least significant first.                                  *)
(***************************************************************************)
\* v * 10 + d in u64: the wrapped result and whether the true result left u64
mul10_add(v, d) ==
    LET t0 == v[1] * 10 + d
        t1 == v[2] * 10 + (t0 \div 65536)
        t2 == v[3] * 10 + (t1 \div 65536)
        t3 == v[4] * 10 + (t2 \div 65536)
    IN [v |-> <<t0 % 65536, t1 % 65536, t2 % 65536, t3 % 65536>>,
        overflow |-> (t3 \div 65536) > 0]

\* u32::try_from(v: u64).is_ok()
u32_fits(v) == v[3] = 0 /\ v[4] = 0

\* u32::try_from(v: u64).unwrap()
u32_from(v) == <<v[1], v[2]>>

\* i32::try_from(v: u64).is_ok()
i32_fits(v) == v[3] = 0 /\ v[4] = 0 /\ v[2] < 32768

\* i32::try_from(v: u64).unwrap(); at most 2^31 - 1
i32_from(v) == v[2] * 65536 + v[1]

(***************************************************************************)
(* The data model (command.rs).                                            *)
(***************************************************************************)
\* TryFrom<u8> for LogKind
LogKind_try_from(b) ==
    IF b = CH_0 THEN [ok |-> TRUE, v |-> "LeftPane"]
    ELSE IF b = CH_1 THEN [ok |-> TRUE, v |-> "MouseOver"]
    ELSE IF b = CH_2 THEN [ok |-> TRUE, v |-> "Other"]
    ELSE [ok |-> FALSE, v |-> "InvalidLogKind"]

\* TryFrom<u8> for RetireKind
RetireKind_try_from(b) ==
    IF b = CH_0 THEN [ok |-> TRUE, v |-> "Retire"]
    ELSE IF b = CH_1 THEN [ok |-> TRUE, v |-> "Flush"]
    ELSE [ok |-> FALSE, v |-> "InvalidRetireKind"]

\* TryFrom<u8> for DepKind
DepKind_try_from(b) ==
    IF b = CH_0 THEN [ok |-> TRUE, v |-> "WakeUp"]
    ELSE [ok |-> FALSE, v |-> "InvalidDepKind"]

\* StrRef::new(offset: u64, len: u16) = (offset << 16) | len, as a u64:
\* limb 0 is len, limbs 1..3 are the low 48 bits of offset
StrRef_new(offset, len) ==
    <<len,
      offset % 65536,
      (offset \div 65536) % 65536,
      ((offset \div 65536) \div 65536) % 65536>>

\* self.0 >> 16
StrRef_offset(s) == s[2] + 65536 * (s[3] + 65536 * s[4])

\* self.0 as u16
StrRef_len(s) == s[1]

(***************************************************************************)
(* Primitive field parsers (parser/rules.rs).                              *)
(***************************************************************************)
Failed(r) == r.st # "Ok"

RECURSIVE spaces(_)
spaces(p) ==
    IF rest_panics(p) THEN Panic(p)
    ELSE IF current(p) \in {<<SP>>, <<TAB>>} THEN spaces(bump(p))
    ELSE Ok(p, <<>>)

lineend(p) ==
    IF rest_panics(p) THEN Panic(p)
    ELSE IF current(p) \in {<<CR>>, <<LF>>}
    THEN LET q == bump(p)
         IN IF rest_panics(q) THEN Panic(q)
            ELSE IF current(q) = <<LF>> THEN Ok(bump(q), <<>>)
            ELSE Ok(q, <<>>)
    ELSE Ok(p, <<>>)

\* expect that consumes the byte it rejects
expect_consuming(p, expected) ==
    IF rest_panics(p) THEN Panic(p)
    ELSE IF current(p) = <<expected>> THEN Ok(bump(p), <<>>)
    ELSE IF current(p) # <<>> THEN Err(bump(p), error(p, "UnexpectedCharacter"))
    ELSE Err(p, error(p, "UnexpectedCharacter"))

expect(p, expected) ==
    IF rest_panics(p) THEN Panic(p)
    ELSE IF current(p) = <<expected>> THEN Ok(bump(p), <<>>)
    ELSE Err(p, error(p, "UnexpectedCharacter"))

\* the value is the bool returned; eat never fails
eat(p, expected) ==
    IF rest_panics(p) THEN Panic(p)
    ELSE IF current(p) = <<expected>> THEN Ok(bump(p), TRUE)
    ELSE Ok(p, FALSE)

tab(p) == expect(p, TAB)

single_digit(p) ==
    IF rest_panics(p) THEN Panic(p)
    ELSE IF current(p) # <<>> /\ is_ascii_digit(current(p)[1])
    THEN Ok(bump(p), current(p)[1])
    ELSE Err(p, error(p, "ExpectedValue"))

\* the while loop of parse_u64 over r = rest(): r[i] is At(p + i).  With
\* overflow checks (a debug build) v * 10 + d panics when it leaves u64;
\* without them (a release build) it wraps.
RECURSIVE parse_u64_loop(_, _, _)
parse_u64_loop(p, i, v) ==
    IF i < rest_len(p) /\ is_ascii_digit(At(p + i))
    THEN LET m == mul10_add(v, At(p + i) - CH_0)
         IN IF m.overflow /\ overflow_checks
            THEN [panic |-> TRUE, i |-> i, v |-> v]
            ELSE parse_u64_loop(p, i + 1, m.v)
    ELSE [panic |-> FALSE, i |-> i, v |-> v]

\* the end of parse_u64, given what its loop left
parse_u64_end(p, l) ==
    IF l.panic THEN Panic(p)
    ELSE IF l.i > 0 THEN Ok(advance(p, l.i), l.v)
    ELSE Err(p, error(p, "ExpectedValue"))

parse_u64(p) ==
    IF rest_panics(p) THEN Panic(p)
    ELSE parse_u64_end(p, parse_u64_loop(p, 0, <<0, 0, 0, 0>>))

\* i32::try_from(self.parse_u64()?).map_err(ValueTooBig)?, without the sign
i32_drop_sign(u, neg) ==
    IF Failed(u) THEN u
    ELSE IF ~i32_fits(u.v) THEN Err(u.pos, error(u.pos, "ValueTooBig"))
    ELSE Ok(u.pos, i32_from(u.v))

\* i32::try_from(self.parse_u64()?).map_err(ValueTooBig)?, then the sign
i32_try_from(u, neg) ==
    IF Failed(u) THEN u
    ELSE IF ~i32_fits(u.v) THEN Err(u.pos, error(u.pos, "ValueTooBig"))
    ELSE IF neg THEN Ok(u.pos, 0 - i32_from(u.v))
    ELSE Ok(u.pos, i32_from(u.v))

\* parse_i32 that reports the end of the buffer as a missing digit run
parse_i32_eof_as_value(p) ==
    IF rest_panics(p) THEN Panic(p)
    ELSE IF current(p) # <<>>
    THEN i32_try_from(
            parse_u64(IF current(p)[1] \in {MINUS, PLUS} THEN bump(p) ELSE p),
            current(p)[1] = MINUS)
    ELSE Err(p, error(p, "ExpectedValue"))

parse_i32(p) ==
    IF rest_panics(p) THEN Panic(p)
    ELSE IF current(p) # <<>>
    THEN i32_try_from(
            parse_u64(IF current(p)[1] \in {MINUS, PLUS} THEN bump(p) ELSE p),
            current(p)[1] = MINUS)
    ELSE Err(p, error(p, "UnexpectedEof"))

\* u32::try_from(v).map_err(ValueTooBig) of the result u of parse_u64()?
u32_try_from(u) ==
    IF Failed(u) THEN u
    ELSE IF ~u32_fits(u.v) THEN Err(u.pos, error(u.pos, "ValueTooBig"))
    ELSE Ok(u.pos, u32_from(u.v))

parse_u32(p) == u32_try_from(parse_u64(p))

\* memchr2(n1, n2, rest()): the index in rest() of the first byte equal to
\* n1 or n2, or -1 for None; found by walking the runs from run k, which
\* starts at offset s
RECURSIVE memchr2_from(_, _, _, _, _)
memchr2_from(n1, n2, p, k, s) ==
    IF k > Len(input) THEN -1
    ELSE IF s + input[k].n > p /\ input[k].b \in {n1, n2}
    THEN (IF s > p THEN s ELSE p) - p
    ELSE memchr2_from(n1, n2, p, k + 1, s + input[k].n)

memchr2(n1, n2, p) == memchr2_from(n1, n2, p, 1, 0)

text(p) ==
    IF rest_panics(p) THEN Panic(p)
    ELSE LET start == p
             i == memchr2(CR, LF, p)
             len == IF i >= 0 THEN i ELSE rest_len(p)
         IN IF len = 0 THEN Err(p, error(p, "ExpectedText"))
            ELSE Ok(advance(p, len), StrRef_new(start, len % 65536))


(***************************************************************************)
(* Record grammar rules (parser/rules.rs).  A rule is the sequence of its  *)
(* calls, in source order; run_steps runs them from a position and, as `?` *)
(* does, stops at the first that fails.  It returns the position reached   *)
(* and the values of the calls, in order.                                  *)
(***************************************************************************)
\* Kind::try_from(d).map_err(|e| self.error(e)) at position p
kind_result(p, k) ==
    IF k.ok THEN Ok(p, k.v) ELSE Err(p, error(p, k.v))

\* LogKind::try_from(self.single_digit()?).map_err(|e| self.error(e))?
log_kind(d) ==
    IF Failed(d) THEN d ELSE kind_result(d.pos, LogKind_try_from(d.v))

\* RetireKind::try_from(self.single_digit()?).map_err(|e| self.error(e))?
retire_kind(d) ==
    IF Failed(d) THEN d ELSE kind_result(d.pos, RetireKind_try_from(d.v))

\* DepKind::try_from(self.single_digit()?).map_err(|e| self.error(e))?
dep_kind(d) ==
    IF Failed(d) THEN d ELSE kind_result(d.pos, DepKind_try_from(d.v))

\* starts_with that compares the six letters and not the tab
starts_with_kanata_letters(p) ==
    /\ rest_len(p) >= Len(kanata)
    /\ \A i \in 1..(Len(kanata) - 1) : At(p + i - 1) = kanata[i]

\* self.rest().starts_with(b"Kanata\t")
starts_with_kanata(p) ==
    /\ rest_len(p) >= Len(kanata)
    /\ \A i \in 1..Len(kanata) : At(p + i - 1) = kanata[i]

\* the literal check of parse_header and the advance over it
header_literal(p) ==
    IF rest_panics(p) THEN Panic(p)
    ELSE IF ~starts_with_kanata(p) THEN Err(p, error(p, "InvalidHeader"))
    ELSE Ok(advance(p, Len(kanata)), <<>>)

\* one call of a rule, at position p
step(name, p) ==
    CASE name = "tab" -> tab(p)
      [] name = "eat_eq" -> eat(p, EQ)
      [] name = "parse_u32" -> parse_u32(p)
      [] name = "parse_i32" -> parse_i32(p)
      [] name = "log_kind" -> log_kind(single_digit(p))
      [] name = "retire_kind" -> retire_kind(single_digit(p))
      [] name = "dep_kind" -> dep_kind(single_digit(p))
      [] name = "text" -> text(p)
      [] name = "spaces" -> spaces(p)
      [] name = "lineend" -> lineend(p)
      [] name = "header_literal" -> header_literal(p)

RECURSIVE run_steps(_, _, _)
\* the rest of the calls after one returned r
run_rest(steps, r, vals) ==
    IF Failed(r) THEN r
    ELSE run_steps(Tail(steps), r.pos, Append(vals, r.v))

run_steps(steps, p, vals) ==
    IF steps = <<>> THEN Ok(p, vals)
    ELSE run_rest(steps, step(Head(steps), p), vals)

\* Ok(Command::Kanata { version })
header_command(r) ==
    IF Failed(r) THEN r
    ELSE Ok(r.pos, [type |-> "Kanata", version |-> r.v[2]])

parse_header(p0) ==
    header_command(
        run_steps(<<"header_literal", "parse_u32", "spaces", "lineend">>,
                  p0, <<>>))

\* Ok(Command::Cycle { abs, value })
c_command(r) ==
    IF Failed(r) THEN r
    ELSE Ok(r.pos, [type |-> "Cycle", abs |-> r.v[1], value |-> r.v[3]])

parse_c(p0) ==
    c_command(
        run_steps(<<"eat_eq", "tab", "parse_i32", "spaces", "lineend">>,
                  bump(p0), <<>>))

\* Ok(Command::Instruction { id_in_file, id_in_sim, thread_id })
i_command(r) ==
    IF Failed(r) THEN r
    ELSE Ok(r.pos, [type |-> "Instruction", id_in_file |-> r.v[2],
                    id_in_sim |-> r.v[4], thread_id |-> r.v[6]])

parse_i(p0) ==
    i_command(
        run_steps(<<"tab", "parse_u32", "tab", "parse_u32", "tab",
                    "parse_u32", "spaces", "lineend">>,
                  bump(p0), <<>>))

\* Ok(Command::Log { id, kind, text })
l_command(r) ==
    IF Failed(r) THEN r
    ELSE Ok(r.pos, [type |-> "Log", id |-> r.v[2], kind |-> r.v[4],
                    text |-> r.v[6]])

parse_l(p0) ==
    l_command(
        run_steps(<<"tab", "parse_u32", "tab", "log_kind", "tab", "text",
                    "lineend">>,
                  bump(p0), <<>>))

\* Ok(Command::Pipeline { start, id, lane_id, name })
pipeline_command(r, start) ==
    IF Failed(r) THEN r
    ELSE Ok(r.pos, [type |-> "Pipeline", start |-> start, id |-> r.v[2],
                    lane_id |-> r.v[4], name |-> r.v[6]])

parse_pipeline(p0, start) ==
    pipeline_command(
        run_steps(<<"tab", "parse_u32", "tab", "parse_u32", "tab", "text",
                    "lineend">>,
                  bump(p0), <<>>),
        start)

\* Ok(Command::Retire { id, retire, kind })
r_command(r) ==
    IF Failed(r) THEN r
    ELSE Ok(r.pos, [type |-> "Retire", id |-> r.v[2], retire |-> r.v[4],
                    kind |-> r.v[6]])

parse_r(p0) ==
    r_command(
        run_steps(<<"tab", "parse_u32", "tab", "parse_u32", "tab",
                    "retire_kind", "spaces", "lineend">>,
                  bump(p0), <<>>))

\* Ok(Command::Dep { consumer_id, producer_id, kind })
w_command(r) ==
    IF Failed(r) THEN r
    ELSE Ok(r.pos, [type |-> "Dep", consumer_id |-> r.v[2],
                    producer_id |-> r.v[4], kind |-> r.v[6]])

parse_w(p0) ==
    w_command(
        run_steps(<<"tab", "parse_u32", "tab", "parse_u32", "tab",
                    "dep_kind", "spaces", "lineend">>,
                  bump(p0), <<>>))

(***************************************************************************)
(* The iteration driver (parser/mod.rs).                                   *)
(***************************************************************************)
\* dispatch with the E arm copied from the S arm unchanged
dispatch_E_as_S(b, p) ==
    IF b = CH_K THEN parse_header(p)
    ELSE IF b = CH_C THEN parse_c(p)
    ELSE IF b = CH_I THEN parse_i(p)
    ELSE IF b = CH_L THEN parse_l(p)
    ELSE IF b = CH_S THEN parse_pipeline(p, TRUE)
    ELSE IF b = CH_E THEN parse_pipeline(p, TRUE)
    ELSE IF b = CH_R THEN parse_r(p)
    ELSE IF b = CH_W THEN parse_w(p)
    ELSE Err(p, error(p, "UnexpectedCharacter"))

\* the match of next() on the leading byte b, at offset p
dispatch(b, p) ==
    IF b = CH_K THEN parse_header(p)
    ELSE IF b = CH_C THEN parse_c(p)
    ELSE IF b = CH_I THEN parse_i(p)
    ELSE IF b = CH_L THEN parse_l(p)
    ELSE IF b = CH_S THEN parse_pipeline(p, TRUE)
    ELSE IF b = CH_E THEN parse_pipeline(p, FALSE)
    ELSE IF b = CH_R THEN parse_r(p)
    ELSE IF b = CH_W THEN parse_w(p)
    ELSE Err(p, error(p, "UnexpectedCharacter"))

\* some_item that reports the offset at which the rule stopped
some_item_end_offset(offset, res) ==
    IF res.st = "Panic" THEN [pos |-> res.pos, item |-> [kind |-> "Panic"]]
    ELSE IF res.st = "Ok"
    THEN [pos |-> res.pos,
          item |-> [kind |-> "Some", offset |-> res.pos, ok |-> TRUE,
                    cmd |-> res.v]]
    ELSE [pos |-> res.pos,
          item |-> [kind |-> "Some", offset |-> res.pos, ok |-> FALSE,
                    e |-> res.e]]

\* Some((offset, res)): the cursor the rule left and the item returned
some_item(offset, res) ==
    IF res.st = "Panic" THEN [pos |-> res.pos, item |-> [kind |-> "Panic"]]
    ELSE IF res.st = "Ok"
    THEN [pos |-> res.pos,
          item |-> [kind |-> "Some", offset |-> offset, ok |-> TRUE,
                    cmd |-> res.v]]
    ELSE [pos |-> res.pos,
          item |-> [kind |-> "Some", offset |-> offset, ok |-> FALSE,
                    e |-> res.e]]

\* Iterator::next as a function of the cursor: the cursor it leaves and the
\* Option<(usize, Result<Command, ParseError>)> it returns
next_result(p) ==
    IF rest_panics(p) THEN [pos |-> p, item |-> [kind |-> "Panic"]]
    ELSE IF current(p) # <<>> THEN some_item(p, dispatch(current(p)[1], p))
    ELSE [pos |-> p, item |-> [kind |-> "None"]]

(***************************************************************************)
(* The buffers the parser is run over.                                     *)
(***************************************************************************)
\* pulls made on one parser
MaxPulls == 5
\* records concatenated in one buffer
MaxRecords == 2
\* length of the buffers of arbitrary bytes
MaxGarbage == 3
\* longest run of one digit in a numeric field
MaxDigits == 21
\* longest free text
MaxTextLen == 65537

\* the bytes of seq, one run each
B(seq) == [i \in 1..Len(seq) |-> [b |-> seq[i], n |-> 1]]

\* byte b, n times
Rep(b, n) == IF n = 0 THEN <<>> ELSE <<[b |-> b, n |-> n]>>

\* the decimal digits ds (values 0..9) as bytes
D(ds) == B([i \in 1..Len(ds) |-> CH_0 + ds[i]])

Eols == {<<>>, B(<<LF>>), B(<<CR>>), B(<<CR, LF>>), B(<<LF, LF>>)}

Trails == {<<>>, B(<<SP>>), B(<<SP, TAB>>)}

\* what may follow the last field: blanks and a line end, or a stray byte 'X'
Ends == {t \o e : t \in Trails, e \in Eols} \cup {B(<<88>>), B(<<88, LF>>)}

\* unsigned decimal literals: runs of nines of every length up to MaxDigits
\* (none at all included), leading zeros, and the values around 2^31, 2^32
\* and 2^64
UNums ==
    {Rep(CH_9, n) : n \in 0..MaxDigits} \cup
    {D(<<0>>), D(<<7>>), D(<<1, 0>>), D(<<0, 0, 7>>),
     Rep(CH_0, 19) \o D(<<1>>),
     D(<<2, 1, 4, 7, 4, 8, 3, 6, 4, 7>>),
     D(<<2, 1, 4, 7, 4, 8, 3, 6, 4, 8>>),
     D(<<4, 2, 9, 4, 9, 6, 7, 2, 9, 5>>),
     D(<<4, 2, 9, 4, 9, 6, 7, 2, 9, 6>>),
     Rep(CH_0, 15) \o D(<<4, 2, 9, 4, 9, 6, 7, 2, 9, 5>>),
     D(<<1, 8, 4, 4, 6, 7, 4, 4, 0, 7, 3, 7, 0, 9, 5, 5, 1, 6, 1, 5>>),
     D(<<1, 8, 4, 4, 6, 7, 4, 4, 0, 7, 3, 7, 0, 9, 5, 5, 1, 6, 1, 6>>),
     D(<<1, 8, 4, 4, 6, 7, 4, 4, 0, 7, 3, 7, 0, 9, 5, 5, 1, 6, 2, 3>>),
     D(<<1, 8, 4, 4, 6, 7, 4, 4, 0, 7, 7, 6, 6, 7, 6, 7, 1, 0, 6, 5>>)}

Signs == {<<>>, B(<<MINUS>>), B(<<PLUS>>), B(<<MINUS, MINUS>>)}

\* free texts: short ones (blanks inside), none, and the lengths around 2^16
Texts ==
    {<<>>, B(<<97>>), B(<<97, SP, 98, TAB, 99>>), B(<<SP>>)} \cup
    {Rep(97, n) : n \in (MaxTextLen - 2)..MaxTextLen} \cup
    {B(<<98>>) \o Rep(97, MaxTextLen - 2)}

\* kind-code bytes: the codes, other digits, a letter 'X', a tab, nothing
KindBytes ==
    {<<>>, B(<<CH_0>>), B(<<CH_1>>), B(<<CH_2>>), B(<<51>>), B(<<CH_9>>),
     B(<<88>>), B(<<TAB>>)}

T == B(<<TAB>>)

HeaderLines ==
    {B(kanata) \o n \o B(<<LF>>) : n \in UNums} \cup
    {B(kanata) \o D(<<3>>) \o e : e \in Ends} \cup
    {B(<<CH_K, TAB, 51, LF>>), B(<<CH_K>>), B(<<CH_K, 97, 110, 97, 116, 97>>),
     B(<<CH_K, 97, 110, 97, 116, 97, SP, 51, LF>>)}

CycleLines ==
    {B(<<CH_C>>) \o eq \o T \o sg \o n \o B(<<LF>>) :
        eq \in {<<>>, B(<<EQ>>)}, sg \in Signs, n \in UNums} \cup
    {B(<<CH_C>>) \o eq \o T \o D(<<5>>) \o e :
        eq \in {<<>>, B(<<EQ>>), B(<<EQ, EQ>>)}, e \in Ends} \cup
    {B(<<CH_C>>), B(<<CH_C, EQ>>), B(<<CH_C, SP, 53, LF>>),
     B(<<CH_C, TAB, PLUS>>), B(<<CH_C, TAB, MINUS>>), B(<<CH_C, TAB>>)}

InstructionLines ==
    {B(<<CH_I>>) \o T \o n \o T \o D(<<1>>) \o T \o D(<<2>>) \o B(<<LF>>) :
        n \in UNums} \cup
    {B(<<CH_I>>) \o T \o D(<<1>>) \o T \o n \o T \o D(<<2>>) \o B(<<LF>>) :
        n \in UNums} \cup
    {B(<<CH_I>>) \o T \o D(<<1>>) \o T \o D(<<2>>) \o T \o n \o B(<<LF>>) :
        n \in UNums} \cup
    {B(<<CH_I>>) \o T \o D(<<1>>) \o T \o D(<<2>>) \o T \o D(<<3>>) \o e :
        e \in Ends} \cup
    {B(<<CH_I>>) \o T \o D(<<1>>) \o B(<<SP>>) \o D(<<2>>) \o T \o D(<<3>>)}

LogLines ==
    {B(<<CH_L>>) \o T \o n \o T \o D(<<1>>) \o T \o B(<<97, LF>>) :
        n \in UNums} \cup
    {B(<<CH_L>>) \o T \o D(<<1, 0>>) \o T \o k \o T \o tx \o e :
        k \in KindBytes, tx \in Texts, e \in Eols}

PipelineLines ==
    {B(<<tag>>) \o T \o n \o T \o D(<<2>>) \o T \o B(<<97, LF>>) :
        tag \in {CH_S, CH_E}, n \in UNums} \cup
    {B(<<tag>>) \o T \o D(<<5>>) \o T \o n \o T \o B(<<97, LF>>) :
        tag \in {CH_S, CH_E}, n \in UNums} \cup
    {B(<<tag>>) \o T \o D(<<5>>) \o T \o D(<<2>>) \o T \o tx \o e :
        tag \in {CH_S, CH_E}, tx \in Texts, e \in Eols}

RetireLines ==
    {B(<<CH_R>>) \o T \o n \o T \o D(<<9>>) \o T \o D(<<1>>) \o B(<<LF>>) :
        n \in UNums} \cup
    {B(<<CH_R>>) \o T \o D(<<1>>) \o T \o n \o T \o D(<<1>>) \o B(<<LF>>) :
        n \in UNums} \cup
    {B(<<CH_R>>) \o T \o D(<<1>>) \o T \o D(<<9>>) \o T \o k \o e :
        k \in KindBytes, e \in Ends}

DepLines ==
    {B(<<CH_W>>) \o T \o n \o T \o D(<<9>>) \o T \o D(<<0>>) \o B(<<LF>>) :
        n \in UNums} \cup
    {B(<<CH_W>>) \o T \o D(<<1>>) \o T \o n \o T \o D(<<0>>) \o B(<<LF>>) :
        n \in UNums} \cup
    {B(<<CH_W>>) \o T \o D(<<1>>) \o T \o D(<<9>>) \o T \o k \o e :
        k \in KindBytes, e \in Ends}

Lines ==
    HeaderLines \cup CycleLines \cup InstructionLines \cup LogLines \cup
    PipelineLines \cup RetireLines \cup DepLines

\* a few whole records of every kind, ended by LF, CR LF, CR or nothing
WholeRecords ==
    {B(kanata) \o D(<<4>>) \o B(<<LF>>),
     B(<<CH_C, EQ, TAB, MINUS, 51, CR, LF>>),
     B(<<CH_C, TAB, 49>>),
     B(<<CH_I, TAB, 48, TAB, 49, TAB, 50, CR>>),
     B(<<CH_L, TAB, 49, TAB, 50, TAB, 97, SP, 98, LF>>),
     B(<<CH_S, TAB, 53, TAB, 50, TAB, 68, LF>>),
     B(<<CH_E, TAB, 53, TAB, 50, TAB, 68, CR, LF>>),
     B(<<CH_R, TAB, 49, TAB, 57, TAB, 49, SP, LF>>),
     B(<<CH_W, TAB, 49, TAB, 50, TAB, 48, LF>>)}

\* the whole records and a few broken ones
CoreLines ==
    WholeRecords \cup
    {B(<<CH_L, TAB, 49, TAB, 88, TAB, 97, LF>>),
     B(<<CH_I, TAB, 49, SP, 50, LF>>),
     B(<<LF>>),
     B(<<35, 97, LF>>),
     B(<<CH_K, 97, 110>>)}

\* representative bytes: blanks, line ends, digits, signs, tags, lowercase
\* letters, NUL and 0xFF
Alphabet ==
    {0, TAB, LF, CR, SP, PLUS, MINUS, EQ, CH_0, CH_9, CH_K, CH_C, CH_I, CH_L,
     CH_S, CH_E, CH_R, CH_W, 88, 97, 107, 255}

\* the bytes the grammar gives a meaning between fields, and one tag
Separators == {TAB, LF, CR, SP, MINUS, CH_C}

SeqsUpTo(S, n) == UNION {[1..k -> S] : k \in 0..n}

Prefixes(runs) == {SubSeq(runs, 1, k) : k \in 0..Len(runs)}

RECURSIVE Concat(_)
Concat(ls) == IF ls = <<>> THEN <<>> ELSE Head(ls) \o Concat(Tail(ls))

\* records cut off where a numeric field is expected
CutAtField ==
    {B(<<CH_C, TAB>>), B(<<CH_C, EQ, TAB>>), B(<<CH_C, TAB, MINUS>>),
     B(<<CH_C, EQ, TAB, PLUS>>), B(<<CH_I, TAB>>), B(kanata),
     B(<<CH_R, TAB, 49, TAB, 57, TAB>>), B(<<CH_L, TAB, 49, TAB>>)}

Inputs ==
    Lines \cup
    {l \o c : l \in CoreLines, c \in CutAtField} \cup
    UNION {Prefixes(l) : l \in CoreLines} \cup
    {B(<<b>>) : b \in 0..255} \cup
    {B(g) : g \in [1..2 -> Alphabet]} \cup
    {B(g) : g \in SeqsUpTo(Separators, MaxGarbage)} \cup
    {Concat(ls) : ls \in [1..2 -> CoreLines]} \cup
    {Concat(ls) : ls \in SeqsUpTo(WholeRecords, MaxRecords)}

(***************************************************************************)
(* The state machine: Parser::new, then pulls.                             *)
(***************************************************************************)
\* Parser::new(input) over any buffer, in a build with or without overflow
\* checks
Init ==
    /\ input \in Inputs
    /\ overflow_checks \in BOOLEAN
    /\ pos = 0
    /\ pulled = <<>>

\* what the last pull returned
last == IF pulled = <<>> THEN [kind |-> "Init"] ELSE pulled[Len(pulled)].item

\* one pull: Iterator::next.  A panic ends the use of the parser.
next ==
    /\ Len(pulled) < MaxPulls
    /\ last.kind # "Panic"
    /\ LET r == next_result(pos)
       IN /\ pos' = r.pos
          /\ pulled' = Append(pulled, [before |-> pos, after |-> r.pos,
                                       item |-> r.item])
    /\ UNCHANGED <<input, overflow_checks>>

Next == next

Spec == Init /\ [][Next]_vars

(***************************************************************************)
(* Properties.  Pulls(k) is the k-th pull of the run.                      *)
(***************************************************************************)
Pulls == 1..Len(pulled)

\* the pull just made.  pulled only grows, by one pull per step, so a
\* property of the last pull that holds in every reachable state holds of
\* every pull of every run.
LastPull == IF pulled = <<>> THEN {} ELSE {Len(pulled)}

Yielded(k) == pulled[k].item.kind = "Some"

YieldedErr(k) == Yielded(k) /\ ~pulled[k].item.ok

YieldedOk(k) == Yielded(k) /\ pulled[k].item.ok

\* the byte at offset i, or -1 at and past the end of the buffer
ByteAt(i) == IF i >= 0 /\ i < InputLen THEN At(i) ELSE -1

Tags == {CH_K, CH_C, CH_I, CH_L, CH_S, CH_E, CH_R, CH_W}

\* C1: every pull that starts before the end of the buffer and yields an
\* item strictly advances the cursor, so that draining the parser ends
\* within InputLen pulls.
C1_EveryPullAdvances ==
    \A k \in Pulls :
        pulled[k].before < InputLen /\ Yielded(k)
            => pulled[k].after > pulled[k].before

\* C2: no pull panics: each pull returns no item, a Command, or a
\* ParseError whose offset is at most the buffer length.
C2_NoPanic ==
    \A k \in Pulls :
        /\ pulled[k].item.kind \in {"None", "Some"}
        /\ YieldedErr(k) => pulled[k].item.e.offset <= InputLen

\* the grammar rule the spec gives for a tag byte
C3_Rule(b, p) ==
    CASE b = CH_K -> parse_header(p)
      [] b = CH_C -> parse_c(p)
      [] b = CH_I -> parse_i(p)
      [] b = CH_L -> parse_l(p)
      [] b = CH_S -> parse_pipeline(p, TRUE)
      [] b = CH_E -> parse_pipeline(p, FALSE)
      [] b = CH_R -> parse_r(p)
      [] b = CH_W -> parse_w(p)

C3_TypeOf(b) ==
    CASE b = CH_K -> "Kanata"
      [] b = CH_C -> "Cycle"
      [] b = CH_I -> "Instruction"
      [] b = CH_L -> "Log"
      [] b \in {CH_S, CH_E} -> "Pipeline"
      [] b = CH_R -> "Retire"
      [] b = CH_W -> "Dep"

\* C3: a pull at offset p < InputLen runs the rule of the tag byte at p
\* (S with start = TRUE, E with start = FALSE), and for every other byte
\* yields (p, UnexpectedCharacter at p).
C3_Dispatch ==
    \A k \in LastPull :
        LET p == pulled[k].before
            it == pulled[k].item
        IN p < InputLen /\ it.kind # "Panic" =>
            /\ it.kind = "Some"
            /\ it.offset = p
            /\ IF At(p) \in Tags
               THEN LET r == C3_Rule(At(p), p)
                    IN /\ it.ok = (r.st = "Ok")
                       /\ pulled[k].after = r.pos
                       /\ it.ok =>
                            /\ it.cmd = r.v
                            /\ it.cmd.type = C3_TypeOf(At(p))
                            /\ At(p) = CH_S => it.cmd.start = TRUE
                            /\ At(p) = CH_E => it.cmd.start = FALSE
                       /\ ~it.ok => it.e = r.e
               ELSE /\ ~it.ok
                    /\ it.e = [offset |-> p, kind |-> "UnexpectedCharacter"]

\* an E record was parsed, and a later pull met a line feed as leading byte
C3_Witness ==
    \E j, k \in Pulls :
        /\ YieldedOk(j) /\ At(pulled[j].before) = CH_E
        /\ YieldedErr(k) /\ pulled[k].before > 0 /\ At(pulled[k].before) = LF

(***************************************************************************)
(* The wire grammar of spec section 6, read off the buffer independently of *)
(* the parser: where fields start and end, and the decimal numerals they   *)
(* hold.  Numbers are compared as decimal numerals without leading zeros.  *)
(***************************************************************************)
IsDigitByte(b) == b >= 48 /\ b <= 57

\* the end of the maximal digit run starting at p
RECURSIVE RunEnd(_)
RunEnd(p) == IF IsDigitByte(ByteAt(p)) THEN RunEnd(p + 1) ELSE p

\* the end of the maximal run of spaces and tabs starting at p
RECURSIVE BlankEnd(_)
BlankEnd(p) == IF ByteAt(p) \in {SP, TAB} THEN BlankEnd(p + 1) ELSE p

\* the digits (values 0..9) of the bytes p .. e-1
DigitsOf(p, e) == [i \in 1..(e - p) |-> ByteAt(p + i - 1) - 48]

\* a numeral without its leading zeros (one digit is kept)
RECURSIVE Canonical(_)
Canonical(ds) ==
    IF Len(ds) > 1 /\ Head(ds) = 0 THEN Canonical(Tail(ds)) ELSE ds

\* a <= b for numerals without leading zeros
NumeralLeq(a, b) ==
    \/ Len(a) < Len(b)
    \/ /\ Len(a) = Len(b)
       /\ \/ a = b
          \/ \E k \in 1..Len(a) :
                /\ a[k] < b[k]
                /\ \A j \in 1..(k - 1) : a[j] = b[j]

\* 2^32 - 1, 2^31 - 1 and 2^31 as numerals
U32MaxNumeral == <<4, 2, 9, 4, 9, 6, 7, 2, 9, 5>>
I32MaxNumeral == <<2, 1, 4, 7, 4, 8, 3, 6, 4, 7>>
I32MinMagnitudeNumeral == <<2, 1, 4, 7, 4, 8, 3, 6, 4, 8>>

\* the numeral of a u32 held as limbs <<l0, l1>>, by long division by 10
RECURSIVE NumeralOfU32(_)
NumeralOfU32(v) ==
    LET q1 == v[2] \div 10
        t == (v[2] % 10) * 65536 + v[1]
        q0 == t \div 10
        r == t % 10
    IN IF q1 = 0 /\ q0 = 0 THEN <<r>>
       ELSE Append(NumeralOfU32(<<q0, q1>>), r)

\* the numeral of a natural number below 2^31
RECURSIVE NumeralOfNat(_)
NumeralOfNat(n) ==
    IF n < 10 THEN <<n>> ELSE Append(NumeralOfNat(n \div 10), n % 10)

\* an unsigned field at p: its end, whether it has digits, its numeral
UField(p) ==
    LET e == RunEnd(p)
    IN [end |-> e, some |-> e > p,
        num |-> IF e > p THEN Canonical(DigitsOf(p, e)) ELSE <<>>]

UFieldInRange(f) == f.some /\ NumeralLeq(f.num, U32MaxNumeral)

\* <eol> at p: CR, LF or CRLF, or the end of the buffer
EolAt(p) == p >= InputLen \/ ByteAt(p) \in {CR, LF}

\* [ \t]*<eol> at p
BlanksEolAt(p) == EolAt(BlankEnd(p))

\* the offsets at which a run of the buffer starts
RECURSIVE RunStarts(_, _)
RunStarts(k, s) ==
    IF k > Len(input) THEN {}
    ELSE {s} \cup RunStarts(k + 1, s + input[k].n)

\* the end of the free text starting at p: the first CR or LF at or after
\* p, or the end of the buffer.  A byte can differ from the one before it
\* only where a run starts, so that is where the first CR or LF is.
TextEnd(p) ==
    LET cands == {i \in RunStarts(1, 0) \cup {p} :
                     i >= p /\ ByteAt(i) \in {CR, LF}} \cup {InputLen}
    IN CHOOSE i \in cands : \A j \in cands : i <= j

\* tag \t id \t id \t: the two unsigned fields of an L, S, E, R or W record
\* at o and the offset after the third tab
TwoIds(o) ==
    LET f1 == UField(o + 2)
        f2 == UField(f1.end + 1)
    IN [ok |-> /\ ByteAt(o + 1) = TAB
               /\ UFieldInRange(f1) /\ ByteAt(f1.end) = TAB
               /\ UFieldInRange(f2) /\ ByteAt(f2.end) = TAB,
        f1 |-> f1, f2 |-> f2, next |-> f2.end + 1]

\* L \t id \t: the id of an L record at o and the offset of its kind byte
LogId(o) ==
    LET f1 == UField(o + 2)
    IN [ok |-> /\ ByteAt(o + 1) = TAB
               /\ UFieldInRange(f1) /\ ByteAt(f1.end) = TAB,
        f1 |-> f1, next |-> f1.end + 1]

\* the kind codes the grammar allows after each tag
AllowedKinds(tag) ==
    CASE tag = CH_L -> {48, 49, 50}
      [] tag = CH_R -> {48, 49}
      [] tag = CH_W -> {48}

InvalidKindError(tag) ==
    CASE tag = CH_L -> "InvalidLogKind"
      [] tag = CH_R -> "InvalidRetireKind"
      [] tag = CH_W -> "InvalidDepKind"

\* the ids and tabs before the kind byte of an L, R or W record at o
BeforeKind(o) == IF ByteAt(o) = CH_L THEN LogId(o) ELSE TwoIds(o)

\* C4: an L, R or W record with valid ids and tabs whose kind-code byte is
\* not an allowed code yields InvalidLogKind / InvalidRetireKind /
\* InvalidDepKind at the offset of that byte.
C4_InvalidKindAtKindByte ==
    \A k \in Pulls :
        LET o == pulled[k].before
            pre == BeforeKind(o)
        IN /\ ByteAt(o) \in {CH_L, CH_R, CH_W}
           /\ pre.ok
           /\ pre.next < InputLen
           /\ ByteAt(pre.next) \notin AllowedKinds(ByteAt(o))
           => /\ YieldedErr(k)
              /\ pulled[k].item.e =
                    [offset |-> pre.next, kind |-> InvalidKindError(ByteAt(o))]

\* the offset of the first byte after the third tab of the L, S or E record
\* at o
TextStart(o) == IF ByteAt(o) = CH_L THEN LogId(o).next + 2 ELSE TwoIds(o).next

\* the StrRef of a Log or Pipeline command
StrRefOf(cmd) == IF cmd.type = "Log" THEN cmd.text ELSE cmd.name

HasStrRef(k) == YieldedOk(k) /\ pulled[k].item.cmd.type \in {"Log", "Pipeline"}

\* C5: the StrRef of a parsed Log, S or E record starts right after the
\* third tab and its length is the number of bytes up to the first CR or LF
\* (or the end of the buffer), whatever that length.
C5_StrRefIsTheText ==
    \A k \in Pulls :
        HasStrRef(k) =>
            LET ts == TextStart(pulled[k].before)
                s == StrRefOf(pulled[k].item.cmd)
            IN /\ StrRef_offset(s) = ts
               /\ StrRef_len(s) = TextEnd(ts) - ts

\* an L, S or E record at o whose fields up to the third tab are valid
TextFieldReached(o) ==
    IF ByteAt(o) = CH_L
    THEN /\ LogId(o).ok
         /\ ByteAt(LogId(o).next) \in AllowedKinds(CH_L)
         /\ ByteAt(LogId(o).next + 1) = TAB
    ELSE ByteAt(o) \in {CH_S, CH_E} /\ TwoIds(o).ok

\* C6: every StrRef yielded lies inside the buffer and has length >= 1; a
\* text field of zero length yields ExpectedText.
C6_StrRefInBufferNonEmpty ==
    \A k \in Pulls :
        /\ HasStrRef(k) =>
              LET s == StrRefOf(pulled[k].item.cmd)
              IN /\ StrRef_offset(s) + StrRef_len(s) <= InputLen
                 /\ StrRef_len(s) >= 1
        /\ LET o == pulled[k].before
           IN TextFieldReached(o) /\ TextEnd(TextStart(o)) = TextStart(o)
                => /\ YieldedErr(k)
                   /\ pulled[k].item.e =
                         [offset |-> TextStart(o), kind |-> "ExpectedText"]

(***************************************************************************)
(* The record the wire grammar reads at offset o, as                       *)
(* [wf |-> whether a well-formed record with fields in range starts at o,  *)
(*  rec |-> its fields], numbers as numerals.  A cycle value with a '-'    *)
(* may have a magnitude up to the numeral negMax.  The header record is    *)
(* the one of spec section 4.3, "Kanata\t<version>".                       *)
(***************************************************************************)
KindName(tag, b) ==
    CASE tag = CH_L -> (IF b = 48 THEN "LeftPane"
                        ELSE IF b = 49 THEN "MouseOver" ELSE "Other")
      [] tag = CH_R -> (IF b = 48 THEN "Retire" ELSE "Flush")
      [] tag = CH_W -> "WakeUp"

HeaderRecord(o) ==
    LET f == UField(o + 7)
    IN [wf |-> /\ \A i \in 1..7 : ByteAt(o + i - 1) = kanata[i]
               /\ UFieldInRange(f)
               /\ BlanksEolAt(f.end),
        rec |-> <<"Kanata", f.num>>]

CycleRecord(o, negMax) ==
    LET abs == ByteAt(o + 1) = EQ
        t == IF abs THEN o + 2 ELSE o + 1
        signed == ByteAt(t + 1) \in {PLUS, MINUS}
        neg == ByteAt(t + 1) = MINUS
        f == UField(IF signed THEN t + 2 ELSE t + 1)
    IN [wf |-> /\ ByteAt(t) = TAB
               /\ f.some
               /\ NumeralLeq(f.num, IF neg THEN negMax ELSE I32MaxNumeral)
               /\ BlanksEolAt(f.end),
        rec |-> <<"Cycle", abs, neg /\ f.num # <<0>>, f.num>>]

InstructionRecord(o) ==
    LET ids == TwoIds(o)
        f3 == UField(ids.next)
    IN [wf |-> ids.ok /\ UFieldInRange(f3) /\ BlanksEolAt(f3.end),
        rec |-> <<"Instruction", ids.f1.num, ids.f2.num, f3.num>>]

LogRecord(o) ==
    LET id == LogId(o)
        kb == ByteAt(id.next)
    IN [wf |-> /\ TextFieldReached(o)
               /\ TextEnd(TextStart(o)) > TextStart(o),
        rec |-> <<"Log", id.f1.num,
                  IF kb \in AllowedKinds(CH_L) THEN KindName(CH_L, kb)
                  ELSE "">>]

PipelineRecord(o) ==
    LET ids == TwoIds(o)
    IN [wf |-> ids.ok /\ TextEnd(ids.next) > ids.next,
        rec |-> <<"Pipeline", ByteAt(o) = CH_S, ids.f1.num, ids.f2.num>>]

KindRecord(o, type) ==
    LET ids == TwoIds(o)
        kb == ByteAt(ids.next)
    IN [wf |-> /\ ids.ok
               /\ kb \in AllowedKinds(ByteAt(o))
               /\ BlanksEolAt(ids.next + 1),
        rec |-> <<type, ids.f1.num, ids.f2.num,
                  IF kb \in AllowedKinds(ByteAt(o))
                  THEN KindName(ByteAt(o), kb) ELSE "">>]

NoRecord == [wf |-> FALSE, rec |-> <<>>]

RecordAt(o, negMax) ==
    LET b == ByteAt(o)
    IN IF b = CH_K THEN HeaderRecord(o)
       ELSE IF b = CH_C THEN CycleRecord(o, negMax)
       ELSE IF b = CH_I THEN InstructionRecord(o)
       ELSE IF b = CH_L THEN LogRecord(o)
       ELSE IF b \in {CH_S, CH_E} THEN PipelineRecord(o)
       ELSE IF b = CH_R THEN KindRecord(o, "Retire")
       ELSE IF b = CH_W THEN KindRecord(o, "Dep")
       ELSE NoRecord

\* the fields of a Command, numbers as numerals
FieldsOf(cmd) ==
    CASE cmd.type = "Kanata" -> <<"Kanata", NumeralOfU32(cmd.version)>>
      [] cmd.type = "Cycle" ->
            <<"Cycle", cmd.abs, cmd.value < 0,
              NumeralOfNat(IF cmd.value < 0 THEN 0 - cmd.value ELSE cmd.value)>>
      [] cmd.type = "Instruction" ->
            <<"Instruction", NumeralOfU32(cmd.id_in_file),
              NumeralOfU32(cmd.id_in_sim), NumeralOfU32(cmd.thread_id)>>
      [] cmd.type = "Log" -> <<"Log", NumeralOfU32(cmd.id), cmd.kind>>
      [] cmd.type = "Pipeline" ->
            <<"Pipeline", cmd.start, NumeralOfU32(cmd.id),
              NumeralOfU32(cmd.lane_id)>>
      [] cmd.type = "Retire" ->
            <<"Retire", NumeralOfU32(cmd.id), NumeralOfU32(cmd.retire),
              cmd.kind>>
      [] cmd.type = "Dep" ->
            <<"Dep", NumeralOfU32(cmd.consumer_id),
              NumeralOfU32(cmd.producer_id), cmd.kind>>

\* every pull at a well-formed record yields Ok with the literal fields
DecodesLiterally(negMax) ==
    \A k \in LastPull :
        LET r == RecordAt(pulled[k].before, negMax)
        IN r.wf => /\ YieldedOk(k)
                   /\ FieldsOf(pulled[k].item.cmd) = r.rec

\* C7 as stated: every record that matches the grammar with its numeric
\* fields in range, i32 for the cycle value (so down to -2147483648),
\* yields Ok with fields equal to the literal values.
C7_DecodesLiterally_I32Range == DecodesLiterally(I32MinMagnitudeNumeral)

\* C7 amended: the same, for cycle values of magnitude at most 2^31 - 1.
C7_DecodesLiterally == DecodesLiterally(I32MaxNumeral)

\* the most negative cycle value accepted was decoded from "C=\t-2147483647"
C7_Witness ==
    \E k \in Pulls :
        /\ RecordAt(pulled[k].before, I32MaxNumeral).wf
        /\ YieldedOk(k)
        /\ pulled[k].item.cmd.type = "Cycle"
        /\ pulled[k].item.cmd.abs
        /\ pulled[k].item.cmd.value = 0 - 2147483647

\* the first numeric field of the record at o: whether the record reaches
\* it, whether it is the signed cycle value, and where its digits start
FirstField(o) ==
    LET b == ByteAt(o)
        t == IF ByteAt(o + 1) = EQ THEN o + 2 ELSE o + 1
    IN IF b = CH_K
       THEN [has |-> \A i \in 1..7 : ByteAt(o + i - 1) = kanata[i],
             signed |-> FALSE, p |-> o + 7]
       ELSE IF b = CH_C
       THEN [has |-> ByteAt(t) = TAB /\ t + 1 < InputLen,
             signed |-> TRUE,
             p |-> IF ByteAt(t + 1) \in {PLUS, MINUS} THEN t + 2 ELSE t + 1]
       ELSE [has |-> b \in Tags /\ ByteAt(o + 1) = TAB,
             signed |-> FALSE, p |-> o + 2]

\* the numeral of the first numeric field of a Command (the magnitude of a
\* cycle value)
FirstNumeral(cmd) ==
    LET fs == FieldsOf(cmd)
    IN IF cmd.type = "Cycle" THEN fs[4]
       ELSE IF cmd.type = "Pipeline" THEN fs[3]
       ELSE fs[2]

\* C8: a numeric field with no digit yields ExpectedValue; a digit run of
\* any length yields Ok(its value) iff the value is at most 2^32 - 1
\* (2^31 - 1 for the magnitude of the cycle value) and ValueTooBig
\* otherwise, also when the value is 2^64 or more.  Stated of the first
\* numeric field of each record; for the cycle value, of a field that has
\* at least one byte.
C8_DecimalFields ==
    \A k \in Pulls :
        LET ff == FirstField(pulled[k].before)
            f == UField(ff.p)
            max == IF ff.signed THEN I32MaxNumeral ELSE U32MaxNumeral
            it == pulled[k].item
        IN ff.has =>
            /\ ~f.some =>
                  /\ YieldedErr(k)
                  /\ it.e = [offset |-> ff.p, kind |-> "ExpectedValue"]
            /\ f.some /\ ~NumeralLeq(f.num, max) =>
                  /\ YieldedErr(k)
                  /\ it.e.kind = "ValueTooBig"
            /\ f.some /\ NumeralLeq(f.num, max) =>
                  /\ it.kind = "Panic" => pulled[k].after > f.end
                  /\ YieldedErr(k) =>
                        \/ it.e.offset > f.end
                        \/ it.e.kind \notin {"ValueTooBig", "ExpectedValue"}
                  /\ YieldedOk(k) => FirstNumeral(it.cmd) = f.num

\* C9: an error yielded by a pull is stamped with the cursor position the
\* pull leaves, at or after the record's offset, and the next pull, if it
\* yields an item, reports that position as its offset: the driver skips
\* nothing after an error.
C9_ErrorOffsetIsCursor ==
    \A k \in Pulls :
        YieldedErr(k) =>
            /\ pulled[k].item.e.offset >= pulled[k].item.offset
            /\ pulled[k].item.e.offset = pulled[k].after
            /\ k + 1 \in Pulls /\ Yielded(k + 1) =>
                  pulled[k + 1].item.offset = pulled[k].item.e.offset

\* a pull failed inside a record, past its tag, and the next pull yielded
\* an item
C9_Witness ==
    \E k \in Pulls :
        /\ YieldedErr(k)
        /\ pulled[k].item.e.offset > pulled[k].item.offset
        /\ k + 1 \in Pulls
        /\ Yielded(k + 1)

\* C10: a pull returns no item iff the cursor is at the end of the buffer;
\* after that every pull returns no item and leaves the cursor where it
\* is; over the empty buffer the first pull returns no item.
C10_NoneIffExhausted ==
    /\ \A k \in Pulls :
          /\ pulled[k].item.kind = "None" <=> pulled[k].before = InputLen
          /\ pulled[k].item.kind = "None" =>
                /\ pulled[k].after = pulled[k].before
                /\ \A j \in Pulls :
                      j > k => /\ pulled[j].item.kind = "None"
                               /\ pulled[j].after = pulled[k].after
    /\ input = <<>> /\ pulled # <<>> => pulled[1].item.kind = "None"

\* a record was parsed up to the end of the buffer and two more pulls
\* returned no item
C10_Witness ==
    \E k \in Pulls :
        /\ YieldedOk(k)
        /\ k + 2 \in Pulls
        /\ pulled[k + 1].item.kind = "None"
        /\ pulled[k + 2].item.kind = "None"
        /\ pulled[k + 2].after = InputLen

(***************************************************************************)
(* Whole buffers read by the wire grammar: where each record ends, and the *)
(* offsets at which the records of a well-formed buffer start.             *)
(***************************************************************************)
\* the offset after the last field of the record at o and the blanks that
\* may follow it: where the grammar has <eol>
FieldsEnd(o) ==
    LET b == ByteAt(o)
        t == IF ByteAt(o + 1) = EQ THEN o + 2 ELSE o + 1
    IN IF b = CH_K THEN BlankEnd(UField(o + 7).end)
       ELSE IF b = CH_C
       THEN BlankEnd(UField(IF ByteAt(t + 1) \in {PLUS, MINUS}
                            THEN t + 2 ELSE t + 1).end)
       ELSE IF b = CH_I THEN BlankEnd(UField(TwoIds(o).next).end)
       ELSE IF b \in {CH_L, CH_S, CH_E} THEN TextEnd(TextStart(o))
       ELSE BlankEnd(TwoIds(o).next + 1)

\* the offset after the <eol> at p: CR LF, CR or LF, or nothing at the end
\* of the buffer
EolEnd(p) ==
    IF ByteAt(p) = CR THEN (IF ByteAt(p + 1) = LF THEN p + 2 ELSE p + 1)
    ELSE IF ByteAt(p) = LF THEN p + 1
    ELSE p

\* the offset after the record at o
RecordEnd(o) == EolEnd(FieldsEnd(o))

\* the offsets at which the records of the buffer start, from o on; -1
\* closes the sequence if what starts there is not a well-formed record
RECURSIVE RecordStarts(_)
RecordStarts(o) ==
    IF o >= InputLen THEN <<>>
    ELSE IF ~RecordAt(o, I32MaxNumeral).wf THEN <<-1>>
    ELSE <<o>> \o RecordStarts(RecordEnd(o))

\* the buffer is a concatenation of well-formed records
WellFormedBuffer ==
    LET starts == RecordStarts(0)
    IN starts = <<>> \/ starts[Len(starts)] >= 0

\* C11: over a buffer that is the concatenation of n >= 0 well-formed
\* records, each ended by LF, CR LF or CR (the last one possibly by the end
\* of the buffer), the first n pulls yield Ok, the i-th with the offset at
\* which the i-th record starts and with the fields of that record, and
\* every later pull yields no item.
C11_DrainYieldsTheRecords ==
    pulled # <<>> =>
        LET starts == RecordStarts(0)
        IN starts = <<>> \/ starts[Len(starts)] >= 0 =>
              \A k \in LastPull :
                 IF k <= Len(starts)
                 THEN /\ YieldedOk(k)
                      /\ pulled[k].item.offset = starts[k]
                      /\ FieldsOf(pulled[k].item.cmd) =
                            RecordAt(starts[k], I32MaxNumeral).rec
                 ELSE pulled[k].item.kind = "None"

\* two records, the first ended by CR LF, were drained and the pull after
\* them yielded no item
C11_Witness ==
    /\ WellFormedBuffer
    /\ Len(RecordStarts(0)) = 2
    /\ ByteAt(RecordStarts(0)[2] - 2) = CR
    /\ Len(pulled) = 3
    /\ YieldedOk(2)
    /\ pulled[2].item.offset = RecordStarts(0)[2]
    /\ pulled[3].item.kind = "None"

\* C12: after a pull that yields Ok the cursor is at the end of the buffer
\* or right after a CR or LF byte: the record was consumed through its own
\* line terminator and no byte of its line is left for the next pull.
C12_OkConsumesWholeLine ==
    \A k \in Pulls :
        YieldedOk(k) =>
            \/ pulled[k].after = InputLen
            \/ ByteAt(pulled[k].after - 1) \in {CR, LF}

\* C13: the line-end step that closes a rule takes at most one CR followed
\* by at most one LF and never fails: a pull that yields Ok leaves the
\* cursor 2 bytes after the last field and its blanks if CR LF is there, 1
\* byte after them for a CR or an LF alone (also when the byte after the LF
\* is another LF), and on them if there is neither or the buffer has ended;
\* and a record whose fields are followed by such a line end yields Ok.
C13_LineEndStep ==
    \A k \in Pulls :
        LET o == pulled[k].before
        IN /\ YieldedOk(k) => pulled[k].after = EolEnd(FieldsEnd(o))
           /\ RecordAt(o, I32MaxNumeral).wf => YieldedOk(k)

\* the seven bytes "Kanata\t" are at o, all of them inside the buffer
KanataAt(o) == \A i \in 1..Len(kanata) : ByteAt(o + i - 1) = kanata[i]

\* C14: a pull whose leading byte is K yields InvalidHeader if the rest of
\* the buffer does not start with the seven bytes "Kanata\t" (also when
\* fewer than seven bytes are left).  If it does, the version is read as a
\* u32 right after them: an error, if any, is not InvalidHeader and lies
\* at or after the version field, and a version within u32 yields the
\* Header command with that version, the cursor having passed the version,
\* the blanks after it and the line end.
C14_Header ==
    \A k \in LastPull :
        LET o == pulled[k].before
            f == UField(o + Len(kanata))
            it == pulled[k].item
        IN ByteAt(o) = CH_K =>
            /\ ~KanataAt(o) =>
                  /\ YieldedErr(k)
                  /\ it.e.kind = "InvalidHeader"
            /\ KanataAt(o) =>
                  /\ YieldedErr(k) =>
                        /\ it.e.kind # "InvalidHeader"
                        /\ it.e.offset >= o + Len(kanata)
                  /\ YieldedOk(k) => it.cmd.type = "Kanata"
                  /\ UFieldInRange(f) =>
                        /\ YieldedOk(k)
                        /\ NumeralOfU32(it.cmd.version) = f.num
                        /\ pulled[k].after >= BlankEnd(f.end)
                        /\ \A i \in BlankEnd(f.end)..(pulled[k].after - 1) :
                              ByteAt(i) \in {CR, LF}
                        /\ ByteAt(BlankEnd(f.end)) \in {CR, LF} =>
                              pulled[k].after > BlankEnd(f.end)

\* the header "Kanata\t4\n" was decoded with version 4, and the next pull
\* met a K with fewer than seven bytes left and yielded InvalidHeader
C14_Witness ==
    \E k \in Pulls :
        /\ KanataAt(pulled[k].before)
        /\ YieldedOk(k)
        /\ pulled[k].item.cmd = [type |-> "Kanata", version |-> <<4, 0>>]
        /\ k + 1 \in Pulls
        /\ ByteAt(pulled[k + 1].before) = CH_K
        /\ InputLen - pulled[k + 1].before < Len(kanata)
        /\ YieldedErr(k + 1)
        /\ pulled[k + 1].item.e.kind = "InvalidHeader"

\* whether the buffer ends exactly where the record at o expects a numeric
\* field (its fields and tabs before that being valid), and the error kind
\* the spec gives for that field: the signed cycle value with no byte at
\* all, the cycle value after a sign, an unsigned field, or a kind digit
FieldAtEnd(o) ==
    LET b == ByteAt(o)
        t == IF ByteAt(o + 1) = EQ THEN o + 2 ELSE o + 1
        f1 == UField(o + 2)
        first == ByteAt(o + 1) = TAB /\ o + 2 = InputLen
        second == /\ ByteAt(o + 1) = TAB
                  /\ UFieldInRange(f1)
                  /\ ByteAt(f1.end) = TAB
                  /\ f1.end + 1 = InputLen
        third == TwoIds(o).ok /\ TwoIds(o).next = InputLen
    IN IF b = CH_K
       THEN [at |-> KanataAt(o) /\ o + Len(kanata) = InputLen,
             kind |-> "ExpectedValue"]
       ELSE IF b = CH_C /\ ByteAt(t) = TAB /\ t + 1 = InputLen
       THEN [at |-> TRUE, kind |-> "UnexpectedEof"]
       ELSE IF b = CH_C
       THEN [at |-> /\ ByteAt(t) = TAB
                    /\ ByteAt(t + 1) \in {PLUS, MINUS}
                    /\ t + 2 = InputLen,
             kind |-> "ExpectedValue"]
       ELSE IF b \in {CH_I, CH_R, CH_W}
       THEN [at |-> first \/ second \/ third, kind |-> "ExpectedValue"]
       ELSE IF b \in {CH_L, CH_S, CH_E}
       THEN [at |-> first \/ second, kind |-> "ExpectedValue"]
       ELSE [at |-> FALSE, kind |-> ""]

\* C15: when the buffer ends exactly where a numeric field is expected,
\* the pull yields UnexpectedEof for the signed cycle value with no byte at
\* all after the tab, and ExpectedValue for the cycle value after a lone
\* sign and for every unsigned field; the error offset is the buffer
\* length.
C15_FieldAtEndOfBuffer ==
    \A k \in LastPull :
        LET fe == FieldAtEnd(pulled[k].before)
        IN fe.at =>
            /\ YieldedErr(k)
            /\ pulled[k].item.e = [offset |-> InputLen, kind |-> fe.kind]

\* "C=\t" at the end of the buffer, after another record, yielded
\* UnexpectedEof
C15_Witness ==
    \E k \in Pulls :
        /\ pulled[k].before > 0
        /\ ByteAt(pulled[k].before) = CH_C
        /\ ByteAt(pulled[k].before + 1) = EQ
        /\ FieldAtEnd(pulled[k].before).at
        /\ YieldedErr(k)
        /\ pulled[k].item.e = [offset |-> InputLen, kind |-> "UnexpectedEof"]

=============================================================================
